---- MODULE Spec2Model ----
(***************************************************************************)
(* imchat: a shared, in-memory message buffer served over HTTP.            *)
(*                                                                         *)
(* The state is the tuple behind AppState.messages (the Vec<Message> and   *)
(* the PrimitiveDateTime of the last reset), the tokio RwLock guarding it, *)
(* the wall clock read by get_now(), the immutable Config, and the         *)
(* position and locals of each in-flight request task.                     *)
(*                                                                         *)
(* Time is counted in whole ticks; max_age is a number of ticks.           *)
(* The RwLock is tokio's: write-preferring, with a FIFO queue of waiting   *)
(* tasks that is served whenever a guard is dropped.                       *)
(* Only requests whose JSON body parses are modelled (the Json extractor   *)
(* answers the others before add_message runs).                            *)
(***************************************************************************)
EXTENDS Integers, Sequences, FiniteSets, TLC

(* ---------------- bounds of the model ---------------- *)
\* the clock stops at MaxNow; max_age is at most MaxAge ticks and every
\* Config has max_message_size = MaxMessageSize
MaxNow == 3
MaxAge == 2
MaxMessageSize == 2
\* Spec: concurrent requests of NumTasks tasks, over the Configs with
\* queue_size <= ConcQueueSize, max_author_size <= ConcAuthorSize and
\* max_age = MaxAge
NumTasks == 2
ConcQueueSize == 1
ConcAuthorSize == 1
\* SpecH: one request at a time, over the Configs with
\* queue_size <= MaxQueueSize, max_author_size <= MaxAuthorSize and
\* max_age in MinAge..MaxAge
MaxQueueSize == 2
MaxAuthorSize == 2
\* SpecL: concurrent requests of NumLockTasks tasks that hold the key, over
\* the Configs with queue_size = 0, max_author_size <= 1 and max_age = MaxAge
NumLockTasks == 3

(* ---------------- data ---------------- *)
Tasks == 1..NumTasks
LockTasks == 1..NumLockTasks

Authors == {"a", "b"}
Texts == {"hi", "toolong"}

\* system.rs Message
Message == [message : Texts, author : Authors]

\* the x-api-key header of a request: absent, the secret, or another value
NoHeader == "<none>"
Headers == {NoHeader, "secret", "wrong"}

Routes == {"add_message", "get_messages", "health"}
NoRoute == "<none>"

\* MAX_AGE is parsed as a signed number of minutes: a negative one is taken
MinAge == -1

\* system.rs Config, as AppState::new builds it from the environment
Configs(maxQueue, maxAuthor, ages) ==
    [queue_size : 0..maxQueue,
     max_message_size : {MaxMessageSize},
     max_author_size : 0..maxAuthor,
     max_age : ages,
     key : {"secret"}]

\* HTTP status codes
OK == 200
CREATED == 201
UNAUTHORIZED == 401
PAYLOAD_TOO_LARGE == 413
TOO_MANY_REQUESTS == 429
NoStatus == -1

\* response bodies: none, the fixed text of health, the Json of get_messages
NoBody == [kind |-> "none", json |-> <<>>]
TextOk == [kind |-> "ok", json |-> <<>>]
Json(q) == [kind |-> "json", json |-> q]

NoMessage == [message |-> "", author |-> ""]
NoTime == -1
\* the value of the history variable accepted while it is switched off
Off == -2
NoSeen == [queue |-> <<>>, last |-> NoTime, now |-> NoTime, denied |-> FALSE]

VARIABLES
    config,     \* AppState.config
    queue,      \* AppState.messages .0
    last,       \* AppState.messages .1
    now,        \* the wall clock get_now() reads
    writers,    \* the task holding the RwLock for writing, if any
    readers,    \* the tasks holding the RwLock for reading
    waiters,    \* the RwLock's FIFO queue of the tasks it has not yet granted
    pc,         \* each task's position
    route,      \* each task's request: the handler it is routed to
    header,     \* each task's request: its x-api-key header
    message,    \* insert_message's argument
    seen,       \* history: the buffer and the clock insert_message found on
                \* entry, and whether its author was in denied
    accepted,   \* history: the clock at the last accepted append
                \* (kept only by SpecH; Off everywhere under Spec)
    log,        \* history: the messages accepted since the last wipe, the
                \* last LogLen of them (kept only by SpecH)
    denied,     \* history: the authors whose latest append since the last
                \* wipe was answered 429 (kept only by SpecH)
    status,     \* each task's response status
    body        \* each task's response body

vars == <<config, queue, last, now, writers, readers, waiters,
          pc, route, header, message, seen, accepted, log, denied, status, body>>

buffer == <<queue, last>>
lock == <<writers, readers, waiters>>
request == <<route, header, message>>
response == <<status, body>>
history == <<accepted, log, denied>>

(* ---------------- pure helpers ---------------- *)

\* mutants of IsStale: the operands swapped; the comparison made inclusive
IsStale_swapped(n, l, cfg) == l - n > cfg.max_age
IsStale_inclusive(n, l, cfg) == n - l >= cfg.max_age

\* system.rs:114  get_now() - *last > config.max_age
IsStale(n, l, cfg) == n - l > cfg.max_age

\* system.rs:119  message.message.len() > config.max_message_size
TooLarge(m, cfg) == Len(m.message) > cfg.max_message_size

\* system.rs:124  queue.iter().filter(|m| m.author == message.author).count()
AuthorCount(q, a) == Cardinality({i \in DOMAIN q : q[i].author = a})

\* mutants of OverQuota: the comparison made strict; every entry counted
OverQuota_strict(q, m, cfg) == AuthorCount(q, m.author) > cfg.max_author_size
OverQuota_anyAuthor(q, m, cfg) == Len(q) >= cfg.max_author_size

\* system.rs:124  ... >= config.max_author_size
OverQuota(q, m, cfg) == AuthorCount(q, m.author) >= cfg.max_author_size

\* mutants of Trim: the cap off by one; the newest entry removed
Trim_offByOne(q, cfg) == IF Len(q) > cfg.queue_size + 1 THEN Tail(q) ELSE q
Trim_dropsNewest(q, cfg) ==
    IF Len(q) > cfg.queue_size THEN SubSeq(q, 1, Len(q) - 1) ELSE q

\* system.rs:131-133  if queue.len() > config.queue_size { queue.remove(0); }
Trim(q, cfg) == IF Len(q) > cfg.queue_size THEN Tail(q) ELSE q

\* mutant of Authorized: any header that is present passes
Authorized_anyKey(h, cfg) == h # NoHeader

\* system.rs:68-71  the middleware's match on the header
Authorized(h, cfg) == h # NoHeader /\ h = cfg.key

\* mutant of CanRead: a read guard is granted whoever holds the lock
CanRead_always == TRUE

\* tokio RwLock: a read guard is granted unless a writer holds the lock
CanRead == writers = {}

\* mutants of CanWrite: the write guard is granted while a writer holds the
\* lock; while readers hold it
CanWrite_noExclusion == readers = {}
CanWrite_amongReaders == writers = {}

\* tokio RwLock: the write guard is granted only when nobody holds the lock
CanWrite == writers = {} /\ readers = {}

\* the history variable changes only where SpecH switched it on
Record(v) == IF accepted = Off THEN Off ELSE v

\* the same switch for the two other history variables
RecordLog(l) == IF accepted = Off THEN <<>> ELSE l
RecordDenied(d) == IF accepted = Off THEN {} ELSE d

\* the history log keeps more than any queue_size of the model
LogLen == MaxQueueSize + 1
KeepLast(l) == IF Len(l) > LogLen THEN Tail(l) ELSE l

(* ---------------- initial state ---------------- *)

\* AppState::new: an empty Vec and the current time
InitWith(configs, hist, tasks) ==
    /\ config \in configs
    /\ queue = <<>>
    /\ now = 0
    /\ last = now
    /\ writers = {}
    /\ readers = {}
    /\ waiters = <<>>
    /\ pc = [t \in tasks |-> "idle"]
    /\ route = [t \in tasks |-> NoRoute]
    /\ header = [t \in tasks |-> NoHeader]
    /\ message = [t \in tasks |-> NoMessage]
    /\ seen = [t \in tasks |-> NoSeen]
    /\ accepted = hist
    /\ log = <<>>
    /\ denied = {}
    /\ status = [t \in tasks |-> NoStatus]
    /\ body = [t \in tasks |-> NoBody]

Init == InitWith(Configs(ConcQueueSize, ConcAuthorSize, {MaxAge}), Off, Tasks)

(* ---------------- the clock ---------------- *)

Tick ==
    /\ now < MaxNow
    /\ now' = now + 1
    /\ UNCHANGED <<config, buffer, lock, pc, request, seen, history, response>>

(* ---------------- requests ---------------- *)

\* a request for one of routes, with one of headers, arrives and the router
\* picks its route
RequestOf(t, routes, headers) ==
    /\ pc[t] = "idle"
    /\ \E r \in routes, h \in headers :
        /\ route' = [route EXCEPT ![t] = r]
        /\ header' = [header EXCEPT ![t] = h]
        /\ pc' = [pc EXCEPT ![t] = IF r = "health" THEN "health" ELSE "middleware"]
    /\ UNCHANGED <<config, buffer, now, lock, message, seen, history, response>>

Request(t) == RequestOf(t, Routes, Headers)

\* a request for /message that carries the key
KeyedRequest(t) == RequestOf(t, {"add_message", "get_messages"}, {config.key})

\* health: answers "ok"; the auth layer is not applied to this route
health(t) ==
    /\ pc[t] = "health"
    /\ status' = [status EXCEPT ![t] = OK]
    /\ body' = [body EXCEPT ![t] = TextOk]
    /\ pc' = [pc EXCEPT ![t] = "done"]
    /\ route' = [route EXCEPT ![t] = NoRoute]
    /\ header' = [header EXCEPT ![t] = NoHeader]
    /\ UNCHANGED <<config, buffer, now, lock, message, seen, history>>

\* the from_fn_with_state layer on the two /message routes
middleware(t) ==
    /\ pc[t] = "middleware"
    /\ IF Authorized(header[t], config)
         THEN /\ pc' = [pc EXCEPT ![t] = route[t]]
              /\ UNCHANGED response
         ELSE /\ status' = [status EXCEPT ![t] = UNAUTHORIZED]
              /\ pc' = [pc EXCEPT ![t] = "done"]
              /\ UNCHANGED body
    /\ route' = [route EXCEPT ![t] = NoRoute]
    /\ header' = [header EXCEPT ![t] = NoHeader]
    /\ UNCHANGED <<config, buffer, now, lock, message, seen, history>>

(* ---------------- the lock ---------------- *)

\* tokio RwLock, a guard is dropped: the lock passes down its queue, in
\* order, to the snapshots at its head while no writer holds it, or to the
\* append at its head once nobody holds it; ws and rs are the holders left
RECURSIVE Handoff(_, _, _)
Handoff(ws, rs, q) ==
    IF q = <<>>
      THEN <<ws, rs, q>>
    ELSE IF pc[Head(q)] = "read_wait" /\ ws = {}
      THEN Handoff(ws, rs \cup {Head(q)}, Tail(q))
    ELSE IF pc[Head(q)] = "write_wait" /\ ws = {} /\ rs = {}
      THEN <<{Head(q)}, rs, Tail(q)>>
    ELSE <<ws, rs, q>>

\* a task that waited for the lock and was granted it resumes after its await
Grant(t) ==
    /\ \/ /\ pc[t] = "write_wait"
          /\ t \in writers
          /\ pc' = [pc EXCEPT ![t] = "insert_message"]
       \/ /\ pc[t] = "read_wait"
          /\ t \in readers
          /\ pc' = [pc EXCEPT ![t] = "read_held"]
    /\ UNCHANGED <<config, buffer, now, lock, request, seen, history, response>>

(* ---------------- POST /message ---------------- *)

\* add_message, line 87: state.messages.write().await
\* (the Json body is drawn where insert_message receives it: until then it is
\* a local of the task that nothing reads)
add_message(t) ==
    /\ pc[t] = "add_message"
    /\ IF CanWrite /\ waiters = <<>>
         THEN /\ writers' = {t}
              /\ pc' = [pc EXCEPT ![t] = "insert_message"]
              /\ UNCHANGED <<readers, waiters>>
         ELSE /\ waiters' = Append(waiters, t)
              /\ pc' = [pc EXCEPT ![t] = "write_wait"]
              /\ UNCHANGED <<writers, readers>>
    /\ UNCHANGED <<config, buffer, now, request, seen, history, response>>

\* insert_message, line 114: the staleness test
insert_message(t) ==
    /\ pc[t] = "insert_message"
    /\ \E m \in Message :
        /\ message' = [message EXCEPT ![t] = m]
        /\ seen' = [seen EXCEPT ![t] = [queue |-> queue, last |-> last, now |-> now,
                                        denied |-> m.author \in denied]]
    /\ pc' = [pc EXCEPT ![t] = IF IsStale(now, last, config) THEN "wipe" ELSE "check"]
    /\ UNCHANGED <<config, buffer, now, lock, route, header, history, response>>

\* mutant of wipe: the entries are cleared and the window is not restarted
wipe_keepsWindow(t) ==
    /\ pc[t] = "wipe"
    /\ queue' = <<>>
    /\ log' = <<>>
    /\ denied' = {}
    /\ pc' = [pc EXCEPT ![t] = "check"]
    /\ UNCHANGED <<config, last, now, lock, request, seen, accepted, response>>

\* mutant of wipe: the window is restarted and the entries are kept
wipe_keepsEntries(t) ==
    /\ pc[t] = "wipe"
    /\ last' = now
    /\ pc' = [pc EXCEPT ![t] = "check"]
    /\ UNCHANGED <<config, queue, now, lock, request, seen, history, response>>

\* insert_message, lines 115-116: queue.clear(); *last = get_now()
wipe(t) ==
    /\ pc[t] = "wipe"
    /\ queue' = <<>>
    /\ last' = now
    /\ log' = <<>>
    /\ denied' = {}
    /\ pc' = [pc EXCEPT ![t] = "check"]
    /\ UNCHANGED <<config, now, lock, request, seen, accepted, response>>

\* mutant of check: the quota is tested before the size
check_quotaFirst(t) ==
    /\ pc[t] = "check"
    /\ IF OverQuota(queue, message[t], config)
         THEN /\ status' = [status EXCEPT ![t] = TOO_MANY_REQUESTS]
              /\ denied' = RecordDenied(denied \cup {message[t].author})
              /\ pc' = [pc EXCEPT ![t] = "return"]
         ELSE IF TooLarge(message[t], config)
         THEN /\ status' = [status EXCEPT ![t] = PAYLOAD_TOO_LARGE]
              /\ pc' = [pc EXCEPT ![t] = "return"]
              /\ UNCHANGED denied
         ELSE /\ pc' = [pc EXCEPT ![t] = "push"]
              /\ UNCHANGED <<status, denied>>
    /\ UNCHANGED <<config, buffer, now, lock, request, seen, accepted, log, body>>

\* insert_message, lines 119-127: the two admission checks
check(t) ==
    /\ pc[t] = "check"
    /\ IF TooLarge(message[t], config)
         THEN /\ status' = [status EXCEPT ![t] = PAYLOAD_TOO_LARGE]
              /\ pc' = [pc EXCEPT ![t] = "return"]
              /\ UNCHANGED denied
         ELSE IF OverQuota(queue, message[t], config)
         THEN /\ status' = [status EXCEPT ![t] = TOO_MANY_REQUESTS]
              /\ denied' = RecordDenied(denied \cup {message[t].author})
              /\ pc' = [pc EXCEPT ![t] = "return"]
         ELSE /\ pc' = [pc EXCEPT ![t] = "push"]
              /\ UNCHANGED <<status, denied>>
    /\ UNCHANGED <<config, buffer, now, lock, request, seen, accepted, log, body>>

\* mutant of push: the message is inserted at the front
push_atFront(t) ==
    /\ pc[t] = "push"
    /\ queue' = <<message[t]>> \o queue
    /\ accepted' = Record(now)
    /\ log' = RecordLog(KeepLast(Append(log, message[t])))
    /\ denied' = RecordDenied(denied \ {message[t].author})
    /\ pc' = [pc EXCEPT ![t] = "trim"]
    /\ UNCHANGED <<config, last, now, lock, request, seen, response>>

\* insert_message, line 129: queue.push(message)
push(t) ==
    /\ pc[t] = "push"
    /\ queue' = Append(queue, message[t])
    /\ accepted' = Record(now)
    /\ log' = RecordLog(KeepLast(Append(log, message[t])))
    /\ denied' = RecordDenied(denied \ {message[t].author})
    /\ pc' = [pc EXCEPT ![t] = "trim"]
    /\ UNCHANGED <<config, last, now, lock, request, seen, response>>

\* mutant of trim: an accepted append restarts the window
trim_restartsWindow(t) ==
    /\ pc[t] = "trim"
    /\ queue' = Trim(queue, config)
    /\ last' = now
    /\ status' = [status EXCEPT ![t] = CREATED]
    /\ pc' = [pc EXCEPT ![t] = "return"]
    /\ UNCHANGED <<config, now, lock, request, seen, history, body>>

\* insert_message, lines 131-135: the one-shot trim, then Ok(())
trim(t) ==
    /\ pc[t] = "trim"
    /\ queue' = Trim(queue, config)
    /\ status' = [status EXCEPT ![t] = CREATED]
    /\ pc' = [pc EXCEPT ![t] = "return"]
    /\ UNCHANGED <<config, last, now, lock, request, seen, history, body>>

\* add_message, lines 89-99: the status is returned and the write guard
\* dropped
add_message_return(t) ==
    /\ pc[t] = "return"
    /\ LET h == Handoff(writers \ {t}, readers, waiters)
       IN  writers' = h[1] /\ readers' = h[2] /\ waiters' = h[3]
    /\ pc' = [pc EXCEPT ![t] = "done"]
    /\ message' = [message EXCEPT ![t] = NoMessage]
    /\ seen' = [seen EXCEPT ![t] = NoSeen]
    /\ UNCHANGED <<config, buffer, now, route, header, history, response>>

(* ---------------- GET /message ---------------- *)

\* mutant of get_messages: the read guard is taken past the lock's queue
get_messages_barging(t) ==
    /\ pc[t] = "get_messages"
    /\ IF CanRead
         THEN /\ readers' = readers \cup {t}
              /\ pc' = [pc EXCEPT ![t] = "read_held"]
              /\ UNCHANGED <<writers, waiters>>
         ELSE /\ waiters' = Append(waiters, t)
              /\ pc' = [pc EXCEPT ![t] = "read_wait"]
              /\ UNCHANGED <<writers, readers>>
    /\ UNCHANGED <<config, buffer, now, request, seen, history, response>>

\* get_messages, line 102: state.messages.read().await
get_messages(t) ==
    /\ pc[t] = "get_messages"
    /\ IF CanRead /\ waiters = <<>>
         THEN /\ readers' = readers \cup {t}
              /\ pc' = [pc EXCEPT ![t] = "read_held"]
              /\ UNCHANGED <<writers, waiters>>
         ELSE /\ waiters' = Append(waiters, t)
              /\ pc' = [pc EXCEPT ![t] = "read_wait"]
              /\ UNCHANGED <<writers, readers>>
    /\ UNCHANGED <<config, buffer, now, request, seen, history, response>>

\* mutant of get_messages_return: the reader wipes a stale window
get_messages_return_wiping(t) ==
    /\ pc[t] = "read_held"
    /\ queue' = IF IsStale(now, last, config) THEN <<>> ELSE queue
    /\ last' = IF IsStale(now, last, config) THEN now ELSE last
    /\ body' = [body EXCEPT ![t] = Json(queue')]
    /\ status' = [status EXCEPT ![t] = OK]
    /\ LET h == Handoff(writers, readers \ {t}, waiters)
       IN  writers' = h[1] /\ readers' = h[2] /\ waiters' = h[3]
    /\ pc' = [pc EXCEPT ![t] = "done"]
    /\ UNCHANGED <<config, now, request, seen, history>>

\* get_messages, lines 104-107: clone the Vec, drop the read guard
get_messages_return(t) ==
    /\ pc[t] = "read_held"
    /\ body' = [body EXCEPT ![t] = Json(queue)]
    /\ status' = [status EXCEPT ![t] = OK]
    /\ LET h == Handoff(writers, readers \ {t}, waiters)
       IN  writers' = h[1] /\ readers' = h[2] /\ waiters' = h[3]
    /\ pc' = [pc EXCEPT ![t] = "done"]
    /\ UNCHANGED <<config, buffer, now, request, seen, history>>

(* ---------------- the response leaves ---------------- *)

Respond(t) ==
    /\ pc[t] = "done"
    /\ pc' = [pc EXCEPT ![t] = "idle"]
    /\ status' = [status EXCEPT ![t] = NoStatus]
    /\ body' = [body EXCEPT ![t] = NoBody]
    /\ UNCHANGED <<config, buffer, now, lock, request, seen, history>>

Next ==
    \/ Tick
    \/ \E t \in Tasks : Request(t)
    \/ \E t \in Tasks : health(t)
    \/ \E t \in Tasks : middleware(t)
    \/ \E t \in Tasks : Grant(t)
    \/ \E t \in Tasks : add_message(t)
    \/ \E t \in Tasks : insert_message(t)
    \/ \E t \in Tasks : wipe(t)
    \/ \E t \in Tasks : check(t)
    \/ \E t \in Tasks : push(t)
    \/ \E t \in Tasks : trim(t)
    \/ \E t \in Tasks : add_message_return(t)
    \/ \E t \in Tasks : get_messages(t)
    \/ \E t \in Tasks : get_messages_return(t)
    \/ \E t \in Tasks : Respond(t)

Spec == Init /\ [][Next]_vars

(* ---------------- one request at a time, with history ---------------- *)

\* Init with the history variable switched on
InitH == InitWith(Configs(MaxQueueSize, MaxAuthorSize, MinAge..MaxAge), NoTime, Tasks)

\* the requests of a single client that waits for each answer
NextH ==
    \/ Tick
    \/ Request(1)
    \/ health(1)
    \/ middleware(1)
    \/ add_message(1)
    \/ insert_message(1)
    \/ wipe(1)
    \/ check(1)
    \/ push(1)
    \/ trim(1)
    \/ add_message_return(1)
    \/ get_messages(1)
    \/ get_messages_return(1)
    \/ Respond(1)

SpecH == InitH /\ [][NextH]_vars

(* ---------------- the lock under load ---------------- *)

InitL == InitWith(Configs(0, 1, {MaxAge}), Off, LockTasks)

\* the steps of task t on the two /message routes
Step(t) ==
    \/ middleware(t)
    \/ Grant(t)
    \/ add_message(t)
    \/ insert_message(t)
    \/ wipe(t)
    \/ check(t)
    \/ push(t)
    \/ trim(t)
    \/ add_message_return(t)
    \/ get_messages(t)
    \/ get_messages_return(t)

NextL ==
    \/ Tick
    \/ \E t \in LockTasks : KeyedRequest(t)
    \/ \E t \in LockTasks : Step(t)
    \/ \E t \in LockTasks : Respond(t)

SpecL == InitL /\ [][NextL]_vars

\* the runtime polls every task that can run; clients and the clock owe
\* nothing
FairSpecL == SpecL /\ \A t \in LockTasks : WF_vars(Step(t))


(***************************************************************************)
(* The claims.                                                             *)
(*                                                                         *)
(* "append" is insert_message: a task at "return" holds the write guard,   *)
(* insert_message has just returned its status, and seen[t] is the buffer  *)
(* and the clock the call found on entry.                                  *)
(*                                                                         *)
(* The claims about what one append or one snapshot does (C1-C5, C7, C8,   *)
(* C10-C14) are checked under SpecH, the claims about requests in flight   *)
(* together (C6, C9, C15) under Spec, the claims about the lock with more  *)
(* requests in flight (C16, C17) under SpecL.                              *)
(***************************************************************************)

Returned(t) == pc[t] = "return"
Rejected(t) == status[t] \in {PAYLOAD_TOO_LARGE, TOO_MANY_REQUESTS}

\* now - window_start > max_age when the call was made
StaleAtCall(t) == seen[t].now - seen[t].last > config.max_age

\* the entries the call's admission checks ran against
AfterWipe(t) == IF StaleAtCall(t) THEN <<>> ELSE seen[t].queue

\* the number of entries of q written by a
CountOf(q, a) == Len(SelectSeq(q, LAMBDA m : m.author = a))

\* a task is inside insert_message, or between its return and the guard's drop
InAppend(t) == pc[t] \in {"insert_message", "wipe", "check", "push", "trim", "return"}

(* ---------------- C1 ---------------- *)

\* C1: the number of entries is at most queue_size whenever no append is
\* between its push and its trim, so after every append returns, accepted
\* or rejected, and in every snapshot handed out
Thm_C1_QueueBounded ==
    /\ (\A t \in Tasks : pc[t] # "trim") => Len(queue) <= config.queue_size
    /\ \A t \in Tasks : body[t].kind = "json" => Len(body[t].json) <= config.queue_size

\* an append was accepted although queue_size = 0, and nothing is stored
Wit_C1_AcceptedWithNoRoom ==
    \E t \in Tasks :
        /\ Returned(t) /\ status[t] = CREATED
        /\ config.queue_size = 0
        /\ queue = <<>>

(* ---------------- C2 ---------------- *)

\* C2: no author ever has more than max_author_size entries in the buffer,
\* in particular right after each append returns
Thm_C2_AuthorQuota ==
    \A a \in Authors : CountOf(queue, a) <= config.max_author_size

\* an accepted append brought its author exactly to the quota
Wit_C2_AuthorAtQuota ==
    \E t \in Tasks :
        /\ Returned(t) /\ status[t] = CREATED
        /\ CountOf(queue, message[t].author) = config.max_author_size

(* ---------------- C3 ---------------- *)

\* C3 as claimed: after a rejected append the entries are those before it
Orig_C3_RejectedIsNoOp ==
    \A t \in Tasks : Returned(t) /\ Rejected(t) => queue = seen[t].queue

\* C3 amended: a rejected append leaves the entries and window_start as they
\* were when the window was not stale at the call; when it was stale, the
\* entries are cleared and nothing is added
Thm_C3_RejectedKeepsOrWipes ==
    \A t \in Tasks :
        Returned(t) /\ Rejected(t) =>
            IF StaleAtCall(t)
              THEN queue = <<>>
              ELSE queue = seen[t].queue /\ last = seen[t].last

\* an append was rejected in a fresh window over a non-empty buffer
Wit_C3_RejectedFresh ==
    \E t \in Tasks :
        /\ Returned(t) /\ Rejected(t)
        /\ ~StaleAtCall(t)
        /\ seen[t].queue # <<>>

(* ---------------- C4 ---------------- *)

\* C4 as claimed: a message longer than max_message_size always yields 413
\* and never changes the entries, stale window or not
Orig_C4_TooLargeNeverMutates ==
    \A t \in Tasks :
        Returned(t) /\ Len(message[t].message) > config.max_message_size =>
            status[t] = PAYLOAD_TOO_LARGE /\ queue = seen[t].queue

\* C4 amended: a message longer than max_message_size always yields 413,
\* whatever its author's count, and is never stored; the entries are
\* unchanged unless the window was stale at the call, and then they are
\* cleared
Thm_C4_TooLarge ==
    \A t \in Tasks :
        Returned(t) /\ Len(message[t].message) > config.max_message_size =>
            /\ status[t] = PAYLOAD_TOO_LARGE
            /\ queue = AfterWipe(t)

\* a too large message by an author who was already at the quota
Wit_C4_TooLargeAtQuota ==
    \E t \in Tasks :
        /\ Returned(t)
        /\ Len(message[t].message) > config.max_message_size
        /\ ~StaleAtCall(t)
        /\ config.max_author_size > 0
        /\ CountOf(seen[t].queue, message[t].author) >= config.max_author_size

(* ---------------- C5 ---------------- *)

\* C5: an append called with now - window_start > max_age leaves at most
\* its own message in the buffer
Thm_C5_StaleAppendWipes ==
    \A t \in Tasks :
        Returned(t) /\ StaleAtCall(t) => queue \in {<<>>, <<message[t]>>}

\* a stale append found entries, wiped them and was admitted
Wit_C5_WipedAndAdmitted ==
    \E t \in Tasks :
        /\ Returned(t) /\ StaleAtCall(t)
        /\ seen[t].queue # <<>>
        /\ status[t] = CREATED
        /\ queue = <<message[t]>>

(* ---------------- C6 ---------------- *)

\* C6: while a snapshot holds the read guard no append is in progress, so
\* the entries it clones are those left by completed appends: never more
\* than queue_size of them, never a wiped buffer awaiting its decision
Thm_C6_SnapshotAtomic ==
    \A r \in Tasks :
        pc[r] = "read_held" =>
            /\ \A w \in Tasks : ~InAppend(w)
            /\ Len(queue) <= config.queue_size

\* a snapshot waits for the lock while an append is between push and trim
Wit_C6_ReaderWaitsForAppend ==
    \E r, w \in Tasks :
        /\ pc[r] = "read_wait"
        /\ pc[w] = "trim"
        /\ Len(queue) > config.queue_size

(* ---------------- C7 ---------------- *)

\* C7 as claimed: an append clears existing entries only if no append was
\* accepted during the max_age interval before it
Orig_C7_WipeOnlyAfterInactivity ==
    \A t \in Tasks :
        pc[t] = "check" /\ StaleAtCall(t) /\ seen[t].queue # <<>> =>
            accepted = NoTime \/ seen[t].now - accepted >= config.max_age

\* C7 amended: the window is not restarted by accepted appends; an append
\* wipes exactly if it is called more than max_age after window_start (the
\* creation of the buffer or its last wipe), and otherwise leaves
\* window_start alone and removes at most the oldest entry
Thm_C7_WipeIffWindowStale ==
    \A t \in Tasks :
        Returned(t) =>
            IF StaleAtCall(t)
              THEN last >= seen[t].now /\ Len(queue) <= 1
              ELSE /\ last = seen[t].last
                   /\ \/ queue = seen[t].queue
                      \/ queue = Append(seen[t].queue, message[t])
                      \/ queue = Tail(Append(seen[t].queue, message[t]))

\* entries were wiped although an append had been accepted less than
\* max_age before
Wit_C7_WipedDespiteActivity ==
    \E t \in Tasks :
        /\ pc[t] = "check" /\ StaleAtCall(t)
        /\ seen[t].queue # <<>> /\ queue = <<>>
        /\ accepted # NoTime
        /\ seen[t].now - accepted < config.max_age

(* ---------------- C8 ---------------- *)

\* C8: a message within max_message_size gets 429 exactly when its author
\* has at least max_author_size entries after this call's wipe, and 201
\* otherwise; an append returns nothing but 201, 413 and 429
Thm_C8_SubmitStatus ==
    \A t \in Tasks :
        Returned(t) =>
            /\ status[t] \in {CREATED, PAYLOAD_TOO_LARGE, TOO_MANY_REQUESTS}
            /\ Len(message[t].message) <= config.max_message_size =>
                 status[t] =
                    IF CountOf(AfterWipe(t), message[t].author) >= config.max_author_size
                      THEN TOO_MANY_REQUESTS
                      ELSE CREATED

\* an author with a non-zero quota was rate limited
Wit_C8_RateLimited ==
    \E t \in Tasks :
        /\ Returned(t) /\ status[t] = TOO_MANY_REQUESTS
        /\ config.max_author_size >= 1
        /\ \E i \in DOMAIN queue : queue[i].author # message[t].author

(* ---------------- C9 ---------------- *)

\* C9: the gate answers 401 to a /message request whose x-api-key is
\* missing or is not the secret, touching neither the buffer nor the lock;
\* health answers "ok" whatever the header, touching neither
Thm_C9_GateAndHealth ==
    [][\A t \in Tasks :
         /\ (pc[t] = "middleware" /\ pc'[t] # "middleware" /\ header[t] # config.key) =>
               /\ pc'[t] = "done"
               /\ status'[t] = UNAUTHORIZED
               /\ buffer' = buffer
               /\ lock' = lock
         /\ (pc[t] = "health" /\ pc'[t] # "health") =>
               /\ pc'[t] = "done"
               /\ status'[t] = OK /\ body'[t] = TextOk
               /\ buffer' = buffer
               /\ lock' = lock]_vars

\* a request was turned away while the buffer held entries
Wit_C9_Unauthorized ==
    \E t \in Tasks :
        /\ pc[t] = "done" /\ status[t] = UNAUTHORIZED
        /\ queue # <<>>

(* ---------------- C10 ---------------- *)

\* C10: no step of get_messages changes the entries or window_start, and
\* the snapshot it returns is the entries as they are, stale or not
Thm_C10_SnapshotReadOnly ==
    [][\A t \in Tasks :
         (pc[t] \in {"get_messages", "read_wait", "read_held"} /\ pc'[t] # pc[t]) =>
            /\ buffer' = buffer
            /\ pc'[t] = "done" => body'[t] = Json(queue) /\ status'[t] = OK]_vars

\* a snapshot returned the two old entries of a stale window, in order
Wit_C10_StaleSnapshot ==
    \E t \in Tasks :
        /\ pc[t] = "done" /\ body[t].kind = "json"
        /\ Len(body[t].json) = 2 /\ body[t].json[1] # body[t].json[2]
        /\ body[t].json = queue
        /\ now - last > config.max_age

(* ---------------- C11 ---------------- *)

\* the last n elements of l
LastN(l, n) == SubSeq(l, Len(l) - n + 1, Len(l))

Min(a, b) == IF a <= b THEN a ELSE b

\* C11: outside the step between push and trim the entries are the last
\* min(k, queue_size) of the k messages accepted since the last wipe, in
\* the order of their acceptance; an accepted append leaves the entries it
\* was checked against in place and in order, followed by its message,
\* less at most the one at index 0
Thm_C11_OldestFirst ==
    /\ (\A t \in Tasks : pc[t] # "trim") =>
           queue = LastN(log, Min(Len(log), config.queue_size))
    /\ \A t \in Tasks :
          Returned(t) /\ status[t] = CREATED =>
             \/ queue = Append(AfterWipe(t), message[t])
             \/ queue = Tail(Append(AfterWipe(t), message[t]))

\* a full buffer of two different entries lost its oldest one to an
\* accepted third message
Wit_C11_EvictedOldest ==
    \E t \in Tasks :
        /\ Returned(t) /\ status[t] = CREATED
        /\ ~StaleAtCall(t)
        /\ Len(seen[t].queue) = 2
        /\ seen[t].queue[1] # seen[t].queue[2]
        /\ queue = <<seen[t].queue[2], message[t]>>
        /\ Len(log) = 3

(* ---------------- C12 ---------------- *)

\* C12 as claimed: in every configuration an accepted message is the last
\* of the entries when its append returns
Orig_C12_AcceptedIsLast ==
    \A t \in Tasks :
        Returned(t) /\ status[t] = CREATED =>
            queue # <<>> /\ queue[Len(queue)] = message[t]

\* C12 amended: with queue_size >= 1 an accepted message is the last of the
\* entries when its append returns; with queue_size = 0 the append answers
\* 201 and the entries stay empty
Thm_C12_AcceptedIsLastIfRoom ==
    \A t \in Tasks :
        Returned(t) /\ status[t] = CREATED =>
            IF config.queue_size >= 1
              THEN queue # <<>> /\ queue[Len(queue)] = message[t]
              ELSE queue = <<>>

\* an accepted message stands last, behind an entry of another author
Wit_C12_LastBehindOther ==
    \E t \in Tasks :
        /\ Returned(t) /\ status[t] = CREATED
        /\ Len(queue) = 2
        /\ queue[2] = message[t]
        /\ queue[1].author # message[t].author

(* ---------------- C13 ---------------- *)

\* window_start changes only in the wipe of an append that found the window
\* stale, and the wipe clears the entries and sets it to the clock
WindowFrame ==
    /\ last' # last =>
          \E t \in Tasks : pc[t] = "wipe" /\ pc'[t] = "check" /\ StaleAtCall(t)
    /\ \A t \in Tasks :
          pc[t] = "wipe" /\ pc'[t] = "check" => last' = now /\ queue' = <<>>

\* an append called with now - window_start <= max_age, accepted or
\* rejected, leaves window_start alone and clears nothing
FreshKeeps ==
    \A t \in Tasks :
        Returned(t) /\ ~StaleAtCall(t) =>
            /\ last = seen[t].last
            /\ IF status[t] = CREATED
                 THEN \/ queue = Append(seen[t].queue, message[t])
                      \/ queue = Tail(Append(seen[t].queue, message[t]))
                 ELSE queue = seen[t].queue

\* no append wipes at the clock value of the wipe before it
NoSecondWipe ==
    \A t \in Tasks :
        pc[t] = "wipe" => ~(seen[t].last > 0 /\ seen[t].now = seen[t].last)

\* C13 as claimed, the idempotence of the wipe in every configuration
Orig_C13_WipeIdempotent ==
    [][WindowFrame]_vars /\ []FreshKeeps /\ []NoSecondWipe

\* C13 amended: window_start changes only inside an append that finds the
\* window stale, where it is set to the current time; an append with
\* now - window_start <= max_age leaves window_start unchanged and clears
\* nothing; for max_age >= 0 a second append at the clock value of a wipe
\* does not wipe again, and for max_age < 0 every append wipes
Thm_C13_WindowStart ==
    /\ [][WindowFrame]_vars
    /\ []FreshKeeps
    /\ [](config.max_age >= 0 => NoSecondWipe)
    /\ [](config.max_age < 0 =>
            \A t \in Tasks : pc[t] = "check" /\ seen[t].now >= seen[t].last =>
                StaleAtCall(t) /\ last >= seen[t].now)

\* an append at the clock value of the wipe before it found entries and
\* kept them
Wit_C13_NoSecondWipe ==
    \E t \in Tasks :
        /\ Returned(t)
        /\ seen[t].last > 0 /\ seen[t].now = seen[t].last
        /\ seen[t].queue # <<>>
        /\ last = seen[t].last
        /\ SubSeq(queue, 1, Len(seen[t].queue)) = seen[t].queue

(* ---------------- C14 ---------------- *)

\* C14: with max_author_size >= 1 a message within max_message_size that
\* arrives in a stale window is accepted, whatever the entries held; and in
\* a window that is not stale, an author whose latest append since the wipe
\* was answered 429 is accepted exactly once the author has fewer than
\* max_author_size entries left, that is once the trim of other authors'
\* appends took one out
Thm_C14_QuotaSelfCorrects ==
    \A t \in Tasks :
        Returned(t) /\ Len(message[t].message) <= config.max_message_size =>
            /\ StaleAtCall(t) /\ config.max_author_size >= 1 =>
                  status[t] = CREATED
            /\ seen[t].denied /\ ~StaleAtCall(t) =>
                  status[t] =
                     IF CountOf(seen[t].queue, message[t].author) < config.max_author_size
                       THEN CREATED
                       ELSE TOO_MANY_REQUESTS

\* an author answered 429 is accepted in the same window, other authors'
\* appends having evicted one of the author's entries
Wit_C14_AcceptedAfterEviction ==
    \E t \in Tasks :
        /\ Returned(t) /\ status[t] = CREATED
        /\ seen[t].denied /\ ~StaleAtCall(t)
        /\ config.max_author_size >= 1
        /\ \A i \in DOMAIN seen[t].queue : seen[t].queue[i].author # message[t].author

(* ---------------- C15 ---------------- *)

\* what insert_message, run alone on the entries q with the window stale or
\* not, returns for m and leaves in the buffer
Alone(q, stale, m) ==
    LET q0 == IF stale THEN <<>> ELSE q
    IN  IF TooLarge(m, config)
          THEN [status |-> PAYLOAD_TOO_LARGE, queue |-> q0]
        ELSE IF OverQuota(q0, m, config)
          THEN [status |-> TOO_MANY_REQUESTS, queue |-> q0]
        ELSE [status |-> CREATED, queue |-> Trim(Append(q0, m), config)]

\* C15: with several submit requests in flight at most one is inside
\* insert_message, the holder of the write guard; when it returns, its
\* status and the entries are those of running it alone on the entries it
\* found, which are those the holder before it left; and no author is ever
\* pushed over max_author_size
Thm_C15_AppendsSerialized ==
    /\ \A t, u \in Tasks : InAppend(t) /\ InAppend(u) => t = u
    /\ \A t \in Tasks : InAppend(t) => writers = {t} /\ readers = {}
    /\ \A t \in Tasks :
          Returned(t) =>
             /\ status[t] = Alone(seen[t].queue, StaleAtCall(t), message[t]).status
             /\ queue = Alone(seen[t].queue, StaleAtCall(t), message[t]).queue
    /\ \A a \in Authors : AuthorCount(queue, a) <= config.max_author_size

\* an append has passed the quota check of an author's only slot and not
\* yet pushed, while another submit request waits for the write guard
Wit_C15_SecondAppendWaits ==
    \E t, u \in Tasks :
        /\ pc[t] = "push" /\ pc[u] = "write_wait"
        /\ config.max_author_size = 1
        /\ queue = <<>>

(* ---------------- C16 ---------------- *)

\* task t is in the lock's queue
Queued(t) == \E i \in DOMAIN waiters : waiters[i] = t

\* an append is queued for the lock ahead of task t
AppendAhead(t) ==
    \E i, j \in DOMAIN waiters :
        i < j /\ waiters[j] = t /\ pc[waiters[i]] = "write_wait"

\* C16 as claimed: no snapshot is kept waiting while only snapshots hold the
\* buffer
Orig_C16_ReadersNeverWaitForReaders ==
    \A r \in LockTasks :
        pc[r] = "read_wait" /\ writers = {} /\ readers # {} => ~Queued(r)

\* C16 amended: an append never holds the buffer together with another
\* append or a snapshot, and is inside insert_message only while it holds
\* it; a snapshot is kept waiting only while an append holds the buffer or
\* is queued for it ahead of the snapshot
Thm_C16_LockDiscipline ==
    /\ Cardinality(writers) <= 1
    /\ writers # {} => readers = {}
    /\ \A t \in LockTasks :
          /\ InAppend(t) => writers = {t}
          /\ pc[t] = "read_held" => t \in readers
          /\ Queued(t) => t \notin writers \cup readers
    /\ \A r \in LockTasks :
          pc[r] = "read_wait" /\ Queued(r) => writers # {} \/ AppendAhead(r)

\* two snapshots hold the buffer together
TwoReaders == Cardinality(readers) >= 2

\* a snapshot is kept waiting behind a queued append while a snapshot, and
\* no append, holds the buffer
Wit_C16_ReaderBehindQueuedAppend ==
    \E r \in LockTasks :
        /\ pc[r] = "read_wait" /\ Queued(r)
        /\ writers = {} /\ readers # {}
        /\ AppendAhead(r)

(* ---------------- C17 ---------------- *)

\* task t has passed the middleware and not yet answered
InHandler(t) == pc[t] \notin {"idle", "health", "middleware", "done"}

\* the answer of a finished handler: 201, 413 or 429, or 200 and the entries
Answered(t) ==
    /\ pc[t] = "done"
    /\ \/ status[t] \in {CREATED, PAYLOAD_TOO_LARGE, TOO_MANY_REQUESTS}
       \/ status[t] = OK /\ body[t].kind = "json"

\* C17: under a fair scheduler every request that entered add_message or
\* get_messages is answered, with 201, 413 or 429, or with the entries; a
\* task that has answered holds no guard and no place in the queue; and
\* while a request is in a handler some task can take a step
Thm_C17_EveryRequestAnswered ==
    /\ \A t \in LockTasks : InHandler(t) ~> Answered(t)
    /\ [](\A t \in LockTasks :
            pc[t] \in {"idle", "middleware", "done"} =>
                t \notin writers \cup readers /\ ~Queued(t))
    /\ []((\E t \in LockTasks : InHandler(t)) => \E t \in LockTasks : ENABLED Step(t))

\* a rejected append has answered and its guard went to the append that
\* waited behind it
Wit_C17_RejectedReleased ==
    \E t, u \in LockTasks :
        /\ pc[t] = "done" /\ status[t] \in {PAYLOAD_TOO_LARGE, TOO_MANY_REQUESTS}
        /\ pc[u] = "write_wait" /\ writers = {u}
====
